---- MODULE Spec2Model ----
(***************************************************************************)
(* Model of the OCR service of tesseract-ocr-proj:                         *)
(*   text_clean.py   clean_ocr_text, structure_text      (SpecText)        *)
(*   api.py          extract_text_endpoint and its stages (Spec)           *)
(*   main_pipline.py run_full_pipeline                    (SpecBatch)      *)
(*   process.py      correct_skew                         (SpecSkew)       *)
(* A text is a sequence of one-character strings.                          *)
(***************************************************************************)
EXTENDS Integers, Sequences, FiniteSets, TLC

VARIABLES
    text, result, op,                                   \* text_clean.py
    pc, fname, uid, procPath, ocr1, rawRuns, recogFailed,
    preRet, status, body, fs, nextUuid,                 \* api.py
    disk, listing, phase, runLog,                       \* main_pipline.py
    pixels, energy, skew, skewPc                        \* process.py

(* text_clean.py: text is the argument, result the value returned, op the   *)
(*   function applied ("input" before the call).                           *)
(* api.py, per request: pc is the handler's position; fname is              *)
(*   original_filename, uid is unique_id, procPath is                       *)
(*   processed_image_api_path; ocr1 is how the recognition on the processed *)
(*   image ended, rawRuns counts the recognitions on the upload,            *)
(*   recogFailed says an except clause of extract_text_from_image ran,      *)
(*   preRet is what preprocess_image returned; status and body are the      *)
(*   response.  fs holds temp_uploads and temp_uploads/processed, nextUuid  *)
(*   counts the tokens uuid4 has drawn.                                     *)
(* main_pipline.py: disk holds images_raw and the four output directories,  *)
(*   listing is the rest of raw_image_files, phase the position in          *)
(*   run_full_pipeline, runLog what each image's run returned and wrote.    *)
(* process.py: pixels is image_gray, energy is r, skew is skew_angle.       *)

textVars == <<text, result, op>>
apiVars == <<pc, fname, uid, procPath, ocr1, rawRuns,
             recogFailed, preRet, status, body, fs, nextUuid>>
batchVars == <<disk, listing, phase, runLog>>
skewVars == <<pixels, energy, skew, skewPc>>
vars == <<textVars, apiVars, batchVars, skewVars>>

----------------------------------------------------------------------------
(* Bounds *)

MaxLen == 4

----------------------------------------------------------------------------
(* Characters.  "u2022" stands for the bullet glyph U+2022. *)

Blank == {" ", "\t"}
Whitespace == {" ", "\t", "\n", "\f"}
Alnum == {"a", "1"}
Digit == {"1"}
BulletChars == {"-", "*", "u2022"}
NumberClosers == {".", ")"}
Chars == Whitespace \cup Alnum \cup BulletChars \cup NumberClosers

NoneText == <<"None">>

RECURSIVE SeqsUpTo(_)
SeqsUpTo(n) ==
    IF n = 0 THEN {<<>>}
    ELSE LET shorter == SeqsUpTo(n - 1)
         IN shorter \cup {Append(s, c) : s \in {t \in shorter : Len(t) = n - 1}, c \in Chars}

Texts == SeqsUpTo(MaxLen)

----------------------------------------------------------------------------
(* String primitives used by text_clean.py *)

Take(s, n) == SubSeq(s, 1, n)
Drop(s, n) == SubSeq(s, n + 1, Len(s))
Reverse(s) == [i \in 1..Len(s) |-> s[Len(s) + 1 - i]]

\* length of the longest prefix of s made of characters of S
RECURSIVE SpanLen(_, _)
SpanLen(s, S) ==
    IF s = <<>> \/ Head(s) \notin S THEN 0 ELSE 1 + SpanLen(Tail(s), S)

\* str.strip()
Strip(s) ==
    LET t == Drop(s, SpanLen(s, Whitespace))
    IN Take(t, Len(t) - SpanLen(Reverse(t), Whitespace))

\* a pass that turns each space or tab into a space and leaves runs as long
\* as they were
RECURSIVE SubBlanksEach(_)
SubBlanksEach(s) ==
    IF s = <<>> THEN <<>>
    ELSE IF Head(s) \in Blank
         THEN <<" ">> \o SubBlanksEach(Tail(s))
         ELSE <<Head(s)>> \o SubBlanksEach(Tail(s))

\* re.sub(r'[ \t]+', ' ', s)
RECURSIVE SubBlanks(_)
SubBlanks(s) ==
    IF s = <<>> THEN <<>>
    ELSE IF Head(s) \in Blank
         THEN <<" ">> \o SubBlanks(Drop(s, SpanLen(s, Blank)))
         ELSE <<Head(s)>> \o SubBlanks(Tail(s))

\* index of the last "\n" of s, 0 if there is none
LastNewline(s) ==
    LET at == {i \in 1..Len(s) : s[i] = "\n"}
    IN IF at = {} THEN 0 ELSE CHOOSE i \in at : \A j \in at : j <= i

\* re.sub(r'\n\s*\n+', '\n\n', s): at a newline the greedy \s* takes the whole
\* whitespace run and backs off to its last newline, which \n+ then matches
RECURSIVE SubParagraphs(_)
SubParagraphs(s) ==
    IF s = <<>> THEN <<>>
    ELSE IF Head(s) = "\n"
         THEN LET last == LastNewline(Take(s, SpanLen(s, Whitespace)))
              IN IF last > 1
                 THEN <<"\n", "\n">> \o SubParagraphs(Drop(s, last))
                 ELSE <<"\n">> \o SubParagraphs(Tail(s))
         ELSE <<Head(s)>> \o SubParagraphs(Tail(s))

\* re.sub(r'\n+', '\n', s)
RECURSIVE SubNewlines(_)
SubNewlines(s) ==
    IF s = <<>> THEN <<>>
    ELSE IF Head(s) = "\n"
         THEN <<"\n">> \o SubNewlines(Drop(s, SpanLen(s, {"\n"})))
         ELSE <<Head(s)>> \o SubNewlines(Tail(s))

\* s.split('\n')
RECURSIVE SplitLines(_)
SplitLines(s) ==
    LET n == SpanLen(s, Chars \ {"\n"})
    IN IF n = Len(s) THEN <<s>>
       ELSE <<Take(s, n)>> \o SplitLines(Drop(s, n + 1))

\* '\n'.join(ls)
RECURSIVE JoinLines(_)
JoinLines(ls) ==
    IF ls = <<>> THEN <<>>
    ELSE IF Len(ls) = 1 THEN ls[1]
         ELSE ls[1] \o <<"\n">> \o JoinLines(Tail(ls))

\* len(re.findall(r'[a-zA-Z0-9]', line))
CountAlnum(line) == Cardinality({i \in 1..Len(line) : line[i] \in Alnum})

MinAlnum == 3

\* the comprehension's condition:
\*   len(re.findall(...)) >= 3 or not line.strip() == ""
KeepLine(line) == CountAlnum(line) >= MinAlnum \/ ~(Strip(line) = <<>>)

\* the text after the three whitespace passes, before the line filter
NormalizeWhitespace(t) == SubNewlines(SubParagraphs(Strip(SubBlanks(t))))

clean_ocr_text(t) ==
    IF t = NoneText \/ t = <<>> THEN <<>>
    ELSE Strip(JoinLines(SelectSeq(SplitLines(NormalizeWhitespace(t)), KeepLine)))

\* re.match(r'^[-*•]\s+', s) or re.match(r'^\d+[\.\)]\s+', s)
MatchesBullet(s) ==
    \/ /\ Len(s) >= 2
       /\ s[1] \in BulletChars
       /\ s[2] \in Whitespace
    \/ LET d == SpanLen(s, Digit)
       IN /\ d >= 1
          /\ Len(s) >= d + 2
          /\ s[d + 1] \in NumberClosers
          /\ s[d + 2] \in Whitespace

\* a structurer that appends the trimmed form of every line
StructureLineTrimmed(line) ==
    LET stripped_line == Strip(line)
    IN IF MatchesBullet(stripped_line) THEN <<" ", " ">> \o stripped_line
       ELSE stripped_line

StructureLine(line) ==
    LET stripped_line == Strip(line)
    IN IF MatchesBullet(stripped_line) THEN <<" ", " ">> \o stripped_line ELSE line

structure_text(t) ==
    LET lines == SplitLines(t)
    IN JoinLines([i \in 1..Len(lines) |-> StructureLine(lines[i])])

----------------------------------------------------------------------------
(* SpecText: the two text functions applied to every text up to MaxLen *)

TextOff == text = <<>> /\ result = <<>> /\ op = "off"

ApiOff ==
    /\ pc = <<>> /\ fname = <<>> /\ uid = <<>>
    /\ procPath = <<>> /\ ocr1 = <<>> /\ rawRuns = <<>>
    /\ recogFailed = <<>> /\ preRet = <<>> /\ status = <<>> /\ body = <<>>
    /\ fs = <<>> /\ nextUuid = 0

BatchOff == disk = <<>> /\ listing = <<>> /\ phase = "off" /\ runLog = <<>>

SkewOff == pixels = <<>> /\ energy = <<>> /\ skew = 0 /\ skewPc = "off"

TextInit ==
    /\ text \in Texts \cup {NoneText}
    /\ result = <<>>
    /\ op = "input"
    /\ ApiOff /\ BatchOff /\ SkewOff

Clean ==
    /\ op = "input"
    /\ result' = clean_ocr_text(text)
    /\ op' = "clean_ocr_text"
    /\ UNCHANGED <<text, apiVars, batchVars, skewVars>>

Structure ==
    /\ op = "input"
    /\ text # NoneText
    /\ result' = structure_text(text)
    /\ op' = "structure_text"
    /\ UNCHANGED <<text, apiVars, batchVars, skewVars>>

TextNext == Clean \/ Structure

SpecText == TextInit /\ [][TextNext]_vars

----------------------------------------------------------------------------
(* Claims about text_clean.py, checked under SpecText *)

NoWhitespace(s) == \A i \in 1..Len(s) : s[i] \notin Whitespace
CountNewlines(s) == Cardinality({i \in 1..Len(s) : s[i] = "\n"})
IsLineOf(l, t) == \E i \in 1..Len(SplitLines(t)) : SplitLines(t)[i] = l

\* C4: clean_ocr_text preserves paragraph breaks: when the input is two
\* retained lines separated by one or more blank lines (a whitespace run
\* with at least two newlines), the output is the two lines separated by
\* exactly one blank line, as in "a\n\n\n\nb" -> "a\n\nb".
CleanKeepsParagraphBreak ==
    (op = "clean_ocr_text" /\ text # NoneText) =>
        \A n1 \in 1..Len(text), n2 \in 1..Len(text) :
            LET l1 == Take(text, n1)
                l2 == Drop(text, Len(text) - n2)
                gap == SubSeq(text, n1 + 1, Len(text) - n2)
            IN (/\ n1 + n2 + 2 <= Len(text)
                /\ NoWhitespace(l1) /\ NoWhitespace(l2)
                /\ \A i \in 1..Len(gap) : gap[i] \in Whitespace
                /\ CountNewlines(gap) >= 2
                /\ IsLineOf(l1, result) /\ IsLineOf(l2, result))
               => result = l1 \o <<"\n", "\n">> \o l2

\* the line filter as the claim states it: a line is dropped if and only if
\* it is not whitespace-only and has fewer than 3 alphanumeric characters
ClaimedKeepLine(line) == ~(Strip(line) # <<>> /\ CountAlnum(line) < 3)

\* C5: the output of clean_ocr_text is what its line filter yields when a
\* line is dropped if and only if it is non-empty (not whitespace-only) and
\* has fewer than 3 alphanumeric characters ("ab" dropped, "ab1" and blank
\* lines retained).
CleanDropsExactlyNoiseLines ==
    (op = "clean_ocr_text" /\ text # NoneText /\ text # <<>>) =>
        /\ \A i \in 1..Len(SplitLines(NormalizeWhitespace(text))) :
               KeepLine(SplitLines(NormalizeWhitespace(text))[i])
                   <=> ClaimedKeepLine(SplitLines(NormalizeWhitespace(text))[i])
        /\ result = Strip(JoinLines(SelectSeq(SplitLines(NormalizeWhitespace(text)),
                                               ClaimedKeepLine)))

\* a list item as the claim states it: a bullet character, or digits followed
\* by "." or ")", then whitespace
IsListItem(s) ==
    \E k \in 1..Len(s) - 1 :
        /\ s[k + 1] \in Whitespace
        /\ \/ k = 1 /\ s[1] \in BulletChars
           \/ /\ k >= 2
              /\ s[k] \in NumberClosers
              /\ \A j \in 1..k - 1 : s[j] \in Digit

\* C6: structure_text keeps the number and order of lines and maps each line
\* on its own: a line whose trimmed form is a list item becomes two spaces
\* plus the trimmed line, every other line is output unchanged, leading
\* whitespace included.
StructureTextLinewise ==
    op = "structure_text" =>
        LET inLines == SplitLines(text)
            outLines == SplitLines(result)
        IN /\ Len(outLines) = Len(inLines)
           /\ \A i \in 1..Len(inLines) :
                  outLines[i] = IF IsListItem(Strip(inLines[i]))
                                THEN <<" ", " ">> \o Strip(inLines[i])
                                ELSE inLines[i]

\* a two-line text, one line a list item and indented, the other not
StructureTextWitness ==
    /\ op = "structure_text"
    /\ Len(SplitLines(text)) = 2
    /\ \E i \in 1..2 : IsListItem(Strip(SplitLines(text)[i]))
    /\ \E i \in 1..2 : ~IsListItem(Strip(SplitLines(text)[i]))
    /\ result # text

\* C11: the output of clean_ocr_text holds no tab and no two adjacent
\* spaces and has no leading or trailing whitespace; for None or "" the
\* output is "".
CleanOutputIsNormalized ==
    op = "clean_ocr_text" =>
        /\ \A i \in 1..Len(result) : result[i] # "\t"
        /\ \A i \in 1..Len(result) - 1 : ~(result[i] = " " /\ result[i + 1] = " ")
        /\ result # <<>> =>
              (result[1] \notin Whitespace /\ result[Len(result)] \notin Whitespace)
        /\ (text = NoneText \/ text = <<>>) => result = <<>>

\* "a  a" (two spaces) cleaned to "a a"
CleanOutputWitness ==
    /\ op = "clean_ocr_text"
    /\ text = <<"a", " ", " ", "a">>
    /\ result = <<"a", " ", "a">>

----------------------------------------------------------------------------
(* Files.  A file system is a function from the paths that exist to what    *)
(* they hold: data (an image that decodes, garbage, a binarized image or    *)
(* text), the text written, and by, the request (api.py) or source image    *)
(* (main_pipline.py) whose run wrote the file; a source image is its own.   *)

Exists(files, p) == p \in DOMAIN files
WriteFile(files, p, d) ==
    [q \in DOMAIN files \cup {p} |-> IF q = p THEN d ELSE files[q]]
RemoveFile(files, p) == [q \in DOMAIN files \ {p} |-> files[q]]

\* cv2.imread(image_path) is None: the file is missing or does not decode
LoadFails(files, image_path) ==
    ~Exists(files, image_path) \/ files[image_path].data # "image"

\* a preprocess_image that writes its output before it looks at the source
preprocess_image_writes_first(files, image_path, output_path, by) ==
    IF LoadFails(files, image_path)
    THEN [ret |-> "None",
          files |-> WriteFile(files, output_path, [data |-> "binary", text |-> <<>>, by |-> by])]
    ELSE [ret |-> "output_path",
          files |-> WriteFile(files, output_path, [data |-> "binary", text |-> <<>>, by |-> by])]

\* process.py preprocess_image: what it returns and the files it leaves
preprocess_image(files, image_path, output_path, by) ==
    IF LoadFails(files, image_path)
    THEN [ret |-> "None", files |-> files]
    ELSE [ret |-> "output_path",
          files |-> WriteFile(files, output_path, [data |-> "binary", text |-> <<>>, by |-> by])]

\* What one call of the recognizer meets: the engine is unavailable, or it
\* runs and produces a text (possibly empty).
Produced == {<<>>, <<"1", ".", " ", "a", "1", "a">>}
RecognizerRuns ==
    {[engine |-> "unavailable", text |-> <<>>]}
        \cup {[engine |-> "ok", text |-> t] : t \in Produced}

\* which except clause of extract_text_from_image runs, "none" if none does
RecognitionFailure(files, image_path, run) ==
    IF ~Exists(files, image_path) THEN "FileNotFoundError"
    ELSE IF files[image_path].data \notin {"image", "binary"} THEN "Exception"
    ELSE IF run.engine = "unavailable" THEN "TesseractNotFoundError"
    ELSE "none"

\* ocr_extract.py extract_text_from_image: every except clause returns ""
extract_text_from_image(files, image_path, run) ==
    IF RecognitionFailure(files, image_path, run) # "none" THEN <<>> ELSE run.text

----------------------------------------------------------------------------
(* api.py: extract_text_endpoint, one process per request *)

NumReqs == 2
Reqs == 1..NumReqs

\* image.filename of an upload; "None" is an upload without a filename
UploadNames == {"scan.png", "None"}
UploadData == {"image", "garbage"}

\* uuid.uuid4().hex when n tokens have been drawn: a token never drawn before
uuid4(n) == n + 1

NoPath == [dir |-> "", tok |-> 0, name |-> ""]
NoBody == [cleaned_text |-> <<>>, detail |-> ""]

\* an upload path that leaves the request's token out
TempFilePathNoToken(unique_id, original_filename) ==
    [dir |-> "temp_uploads", tok |-> 0, name |-> original_filename]

\* os.path.join(UPLOAD_DIR, f"{unique_id}_{original_filename}"); the token is
\* 32 hex digits, so token and name are read back from the file name
TempFilePath(unique_id, original_filename) ==
    [dir |-> "temp_uploads", tok |-> unique_id, name |-> original_filename]

\* os.path.join(PROCESSED_DIR_API, f"processed_{token}_{original_filename}")
ProcessedPath(token, original_filename) ==
    [dir |-> "temp_uploads/processed", tok |-> token, name |-> original_filename]

temp_file_path(r) == TempFilePath(uid[r], fname[r])
processed_image_api_path_to_clean(r) == ProcessedPath(uid[r], fname[r])

Init ==
    /\ pc = [r \in Reqs |-> "idle"]
    /\ fname = [r \in Reqs |-> ""]
    /\ uid = [r \in Reqs |-> 0]
    /\ procPath = [r \in Reqs |-> NoPath]
    /\ ocr1 = [r \in Reqs |-> "none"]
    /\ rawRuns = [r \in Reqs |-> 0]
    /\ recogFailed = [r \in Reqs |-> FALSE]
    /\ preRet = [r \in Reqs |-> "none"]
    /\ status = [r \in Reqs |-> 0]
    /\ body = [r \in Reqs |-> NoBody]
    /\ fs = <<>>
    /\ nextUuid = 0
    /\ TextOff /\ BatchOff /\ SkewOff

\* lines 81-91: draw the token, save the upload; copyfileobj may raise after
\* open() created the file (lines 103-105 then turn it into a 500)
SaveUpload(r, name, data, copied) ==
    /\ pc[r] = "idle"
    /\ LET unique_id == uuid4(nextUuid)
           original_filename == IF name = "None" THEN "unknown_image" ELSE name
           path == TempFilePath(unique_id, original_filename)
       IN /\ uid' = [uid EXCEPT ![r] = unique_id]
          /\ fname' = [fname EXCEPT ![r] = original_filename]
          /\ nextUuid' = nextUuid + 1
          /\ IF copied
             THEN /\ fs' = WriteFile(fs, path, [data |-> data, text |-> <<>>, by |-> r])
                  /\ pc' = [pc EXCEPT ![r] = "preprocess"]
                  /\ UNCHANGED <<status, body>>
             ELSE /\ fs' = WriteFile(fs, path, [data |-> "garbage", text |-> <<>>, by |-> r])
                  /\ pc' = [pc EXCEPT ![r] = "finally"]
                  /\ status' = [status EXCEPT ![r] = 500]
                  /\ body' = [body EXCEPT ![r].detail = "An unexpected error occurred"]
    /\ UNCHANGED <<procPath, ocr1, rawRuns, recogFailed, preRet>>
    /\ UNCHANGED <<textVars, batchVars, skewVars>>

\* process_uploaded_image lines 41-52: a second token names the processed
\* image; a missing output raises HTTPException(500)
Preprocess(r) ==
    /\ pc[r] = "preprocess"
    /\ LET processed_image_api_path == ProcessedPath(uuid4(nextUuid), fname[r])
           pre == preprocess_image(fs, temp_file_path(r), processed_image_api_path, r)
       IN /\ nextUuid' = nextUuid + 1
          /\ procPath' = [procPath EXCEPT ![r] = processed_image_api_path]
          /\ preRet' = [preRet EXCEPT ![r] = pre.ret]
          /\ fs' = pre.files
          /\ IF Exists(pre.files, processed_image_api_path)
             THEN /\ pc' = [pc EXCEPT ![r] = "ocr"]
                  /\ UNCHANGED <<status, body>>
             ELSE /\ pc' = [pc EXCEPT ![r] = "finally"]
                  /\ status' = [status EXCEPT ![r] = 500]
                  /\ body' = [body EXCEPT ![r].detail = "Image preprocessing error"]
    /\ UNCHANGED <<fname, uid, ocr1, rawRuns, recogFailed>>
    /\ UNCHANGED <<textVars, batchVars, skewVars>>

\* lines 67-71 and 96-99: clean and structure ocr_text, build the response
Respond(r, ocr_text) ==
    /\ body' = [body EXCEPT ![r].cleaned_text =
                   structure_text(clean_ocr_text(ocr_text))]
    /\ status' = [status EXCEPT ![r] = 200]
    /\ pc' = [pc EXCEPT ![r] = "finally"]

\* lines 57-58: recognition on the processed image, then the test for the
\* fallback; extract_text_from_image raises nothing, so line 61 never runs.
\* Without a fallback the handler goes on to its response.
Ocr(r, run) ==
    /\ pc[r] = "ocr"
    /\ LET ocr_text == extract_text_from_image(fs, procPath[r], run)
           failure == RecognitionFailure(fs, procPath[r], run)
       IN /\ ocr1' = [ocr1 EXCEPT ![r] =
                        IF failure # "none" THEN failure
                        ELSE IF ocr_text = <<>> THEN "empty" ELSE "text"]
          /\ recogFailed' = [recogFailed EXCEPT ![r] = failure # "none"]
          /\ IF ocr_text = <<>> /\ Exists(fs, procPath[r])
             THEN /\ pc' = [pc EXCEPT ![r] = "fallback"]
                  /\ UNCHANGED <<status, body>>
             ELSE Respond(r, ocr_text)
    /\ UNCHANGED <<fname, uid, procPath, rawRuns, preRet, fs, nextUuid>>
    /\ UNCHANGED <<textVars, batchVars, skewVars>>

\* line 60: recognition on the uploaded image itself, then the response
Fallback(r, run) ==
    /\ pc[r] = "fallback"
    /\ rawRuns' = [rawRuns EXCEPT ![r] = @ + 1]
    /\ recogFailed' = [recogFailed EXCEPT ![r] =
                          @ \/ RecognitionFailure(fs, temp_file_path(r), run) # "none"]
    /\ Respond(r, extract_text_from_image(fs, temp_file_path(r), run))
    /\ UNCHANGED <<fname, uid, procPath, ocr1, preRet, fs, nextUuid>>
    /\ UNCHANGED <<textVars, batchVars, skewVars>>

\* lines 106-116: the finally clause; the handler then returns: the response
\* goes to the client and the handler's locals are gone
Finally(r) ==
    /\ pc[r] = "finally"
    /\ LET afterRaw == IF Exists(fs, temp_file_path(r))
                       THEN RemoveFile(fs, temp_file_path(r)) ELSE fs
       IN fs' = IF Exists(afterRaw, processed_image_api_path_to_clean(r))
                THEN RemoveFile(afterRaw, processed_image_api_path_to_clean(r))
                ELSE afterRaw
    /\ pc' = [pc EXCEPT ![r] = "done"]
    /\ fname' = [fname EXCEPT ![r] = ""]
    /\ uid' = [uid EXCEPT ![r] = 0]
    /\ procPath' = [procPath EXCEPT ![r] = NoPath]
    /\ ocr1' = [ocr1 EXCEPT ![r] = "none"]
    /\ rawRuns' = [rawRuns EXCEPT ![r] = 0]
    /\ recogFailed' = [recogFailed EXCEPT ![r] = FALSE]
    /\ preRet' = [preRet EXCEPT ![r] = "none"]
    /\ status' = [status EXCEPT ![r] = 0]
    /\ body' = [body EXCEPT ![r] = NoBody]
    /\ UNCHANGED nextUuid
    /\ UNCHANGED <<textVars, batchVars, skewVars>>

Next ==
    \E r \in Reqs :
        \/ \E name \in UploadNames, data \in UploadData, copied \in BOOLEAN :
               SaveUpload(r, name, data, copied)
        \/ Preprocess(r)
        \/ \E run \in RecognizerRuns : Ocr(r, run)
        \/ \E run \in RecognizerRuns : Fallback(r, run)
        \/ Finally(r)

Spec == Init /\ [][Next]_vars

----------------------------------------------------------------------------
(* Claims about api.py, checked under Spec *)

\* C1: once extract_text_endpoint has returned, on every exit path, neither
\* the request's uploaded temp file nor the processed image file that
\* process_uploaded_image created for it still exists.
TempFilesRemovedOnReturn ==
    \A r \in Reqs :
        pc[r] = "done" => \A p \in DOMAIN fs : fs[p].by # r

\* C2: a request in which recognition failed (engine unavailable, or any
\* other recognizer failure) ends in a 500 error carrying a message, never
\* in a successful response.
RecognizerFailureIsFatal ==
    \A r \in Reqs :
        (pc[r] = "finally" /\ recogFailed[r]) =>
            (status[r] = 500 /\ body[r].detail # "")

\* C3: recognition on the unprocessed source image runs at most once per
\* request, and only after recognition on the processed image completed
\* without failure and returned empty text.
FallbackOnlyAfterEmptyResult ==
    \A r \in Reqs :
        /\ rawRuns[r] <= 1
        /\ rawRuns[r] >= 1 => ocr1[r] = "empty"

\* C7: when the source image cannot be loaded, preprocess_image signals
\* the failure to its caller (it returns None, and the endpoint answers with
\* a 500 error) and no file is created or modified: the files are the same
\* before and after the call.
PreprocessFailureLeavesNoFile ==
    [][\A r \in Reqs :
          (pc[r] = "preprocess" /\ pc'[r] # "preprocess"
                /\ LoadFails(fs, temp_file_path(r)))
             => /\ preRet'[r] = "None"
                /\ fs' = fs
                /\ pc'[r] = "finally"
                /\ status'[r] = 500]_vars

\* a request whose upload did not decode, after its preprocessing step
PreprocessFailureWitness ==
    \E r \in Reqs :
        /\ pc[r] = "finally"
        /\ Exists(fs, temp_file_path(r))
        /\ fs[temp_file_path(r)].data = "garbage"
        /\ preRet[r] = "None"
        /\ procPath[r] # NoPath
        /\ ~Exists(fs, procPath[r])
        /\ status[r] = 500

\* the paths request r reads, writes or deletes
RequestPaths(r) ==
    IF pc[r] \in {"idle", "done"} THEN {}
    ELSE {temp_file_path(r), processed_image_api_path_to_clean(r)}
            \cup (IF procPath[r] = NoPath THEN {} ELSE {procPath[r]})

\* C9: two requests in flight, same filename or not, have different upload
\* paths and different processed-image paths, and no request touches a file
\* of another: a file at a path a request uses was written by that request.
RequestsShareNoFile ==
    /\ \A r1, r2 \in Reqs :
          r1 # r2 => RequestPaths(r1) \cap RequestPaths(r2) = {}
    /\ \A r \in Reqs : \A p \in DOMAIN fs :
          p \in RequestPaths(r) => fs[p].by = r

\* two requests with the same filename, both with their upload and their
\* processed image on disk
RequestsShareNoFileWitness ==
    \E r1, r2 \in Reqs :
        /\ r1 # r2
        /\ fname[r1] = fname[r2]
        /\ pc[r1] = "ocr" /\ pc[r2] = "fallback"
        /\ Exists(fs, temp_file_path(r1)) /\ Exists(fs, temp_file_path(r2))
        /\ Exists(fs, procPath[r1]) /\ Exists(fs, procPath[r2])

----------------------------------------------------------------------------
(* main_pipline.py: run_full_pipeline over the files of images_raw *)

MaxFiles == 3

\* a file name is its stem and its extension, as os.path.splitext cuts it
DirNames ==
    {[stem |-> "a", ext |-> ".png"], [stem |-> "a", ext |-> ".jpg"],
     [stem |-> "b", ext |-> ".PNG"], [stem |-> "notes", ext |-> ".txt"]}
DummyNames ==
    {[stem |-> "image_raw_1", ext |-> ".png"], [stem |-> "image_raw_2", ext |-> ".png"]}

\* str.lower() on an extension
Lower(ext) == IF ext = ".PNG" THEN ".png" ELSE ext

\* f.lower().endswith(('.png', '.jpg', '.jpeg', '.tiff', '.bmp'))
IsImageName(f) == Lower(f.ext) \in {".png", ".jpg", ".jpeg", ".tiff", ".bmp"}

RawImagePath(f) == [dir |-> "images_raw", stem |-> f.stem, suffix |-> f.ext]
ProcessedImagePath(f) ==
    [dir |-> "images_processed", stem |-> f.stem, suffix |-> "_processed.png"]
RawOcrPath(f) ==
    [dir |-> "ocr_output_raw", stem |-> f.stem, suffix |-> "_ocr_raw.txt"]
ProcessedOcrPath(f) ==
    [dir |-> "ocr_output_processed", stem |-> f.stem, suffix |-> "_ocr_processed.txt"]
CleanedTextPath(f) ==
    [dir |-> "cleaned_text", stem |-> f.stem, suffix |-> "_cleaned.txt"]

TextFile(t, by) == [data |-> "text", text |-> t, by |-> by]
TextArtifacts == {"ocr_output_raw", "ocr_output_processed", "cleaned_text"}

\* os.listdir(RAW_IMAGES_DIR) filtered by extension
RawImageFiles(files) ==
    {f \in DirNames \cup DummyNames : IsImageName(f) /\ Exists(files, RawImagePath(f))}

\* the orders in which os.listdir may return the names of S
Listings(S) ==
    {l \in [1..Cardinality(S) -> S] : \A i, j \in 1..Cardinality(S) : l[i] = l[j] => i = j}

\* process_single_image_pipeline: the files it leaves, what preprocess_image
\* returned and the text artifacts this run wrote
process_single_image_pipeline(files, f, rawRun, procRun) ==
    IF ~Exists(files, RawImagePath(f))
    THEN [files |-> files, pre |-> "not_found", wrote |-> {}]
    ELSE LET pre == preprocess_image(files, RawImagePath(f), ProcessedImagePath(f), f)
         IN IF ~Exists(pre.files, ProcessedImagePath(f))
            THEN [files |-> pre.files, pre |-> pre.ret, wrote |-> {}]
            ELSE LET raw_ocr_text ==
                         extract_text_from_image(pre.files, RawImagePath(f), rawRun)
                     processed_ocr_text ==
                         extract_text_from_image(pre.files, ProcessedImagePath(f), procRun)
                     text_to_clean ==
                         IF processed_ocr_text # <<>> THEN processed_ocr_text
                         ELSE raw_ocr_text
                     final_structured_text == structure_text(clean_ocr_text(text_to_clean))
                     f1 == WriteFile(pre.files, RawOcrPath(f), TextFile(raw_ocr_text, f))
                     f2 == WriteFile(f1, ProcessedOcrPath(f), TextFile(processed_ocr_text, f))
                     f3 == WriteFile(f2, CleanedTextPath(f), TextFile(final_structured_text, f))
                 IN [files |-> f3, pre |-> pre.ret, wrote |-> TextArtifacts]

BatchInit ==
    /\ \E S \in SUBSET DirNames :
          /\ Cardinality(S) <= MaxFiles
          /\ \E d \in [S -> {"image", "garbage"}] :
                disk = [p \in {RawImagePath(f) : f \in S} |->
                           [data |-> d[[stem |-> p.stem, ext |-> p.suffix]],
                            text |-> <<>>,
                            by |-> [stem |-> p.stem, ext |-> p.suffix]]]
    /\ listing = <<>>
    /\ phase = "start"
    /\ runLog = <<>>
    /\ TextOff /\ ApiOff /\ SkewOff

\* lines 84-103: list the images; an empty list makes the two dummy images
ListImages ==
    /\ phase = "start"
    /\ LET withDummies ==
               [p \in DOMAIN disk \cup {RawImagePath(f) : f \in DummyNames} |->
                   IF p \in DOMAIN disk THEN disk[p]
                   ELSE [data |-> "image", text |-> <<>>,
                         by |-> [stem |-> p.stem, ext |-> p.suffix]]]
       IN disk' = IF RawImageFiles(disk) = {} THEN withDummies ELSE disk
    /\ listing' \in Listings(RawImageFiles(disk'))
    /\ phase' = "loop"
    /\ UNCHANGED runLog
    /\ UNCHANGED <<textVars, apiVars, skewVars>>

\* lines 106-107: one turn of the loop
ProcessNext(rawRun, procRun) ==
    /\ phase = "loop"
    /\ listing # <<>>
    /\ LET f == Head(listing)
           run == process_single_image_pipeline(disk, f, rawRun, procRun)
       IN /\ disk' = run.files
          /\ runLog' = [g \in DOMAIN runLog \cup {f} |->
                           IF g = f THEN [pre |-> run.pre, wrote |-> run.wrote]
                           ELSE runLog[g]]
    /\ listing' = Tail(listing)
    /\ UNCHANGED phase
    /\ UNCHANGED <<textVars, apiVars, skewVars>>

\* the loop is over
FinishBatch ==
    /\ phase = "loop"
    /\ listing = <<>>
    /\ phase' = "done"
    /\ UNCHANGED <<disk, listing, runLog>>
    /\ UNCHANGED <<textVars, apiVars, skewVars>>

BatchNext ==
    \/ ListImages
    \/ \E rawRun \in RecognizerRuns, procRun \in RecognizerRuns :
           ProcessNext(rawRun, procRun)
    \/ FinishBatch

SpecBatch == BatchInit /\ [][BatchNext]_vars

\* C8: every file of the input directory with an image extension is
\* processed whatever happened to earlier files; an image whose preprocessing
\* fails is skipped with none of its three text artifacts written, and an
\* image whose preprocessing succeeds ends with all four artifacts written.
BatchSkipsFailedAndCompletesOthers ==
    /\ phase = "done" => \A f \in RawImageFiles(disk) : f \in DOMAIN runLog
    /\ \A f \in DOMAIN runLog :
          /\ runLog[f].pre = "None" => runLog[f].wrote = {}
          /\ runLog[f].pre = "output_path" =>
                /\ runLog[f].wrote = TextArtifacts
                /\ \A p \in {ProcessedImagePath(f), RawOcrPath(f),
                             ProcessedOcrPath(f), CleanedTextPath(f)} :
                      Exists(disk, p)

\* the four artifact paths of a source image
ArtifactPaths(f) ==
    {ProcessedImagePath(f), RawOcrPath(f), ProcessedOcrPath(f), CleanedTextPath(f)}

\* C12: two different source image files of a batch run never map to the
\* same artifact path (names that differ only in extension included), so no
\* image's artifacts are overwritten by another's: after its run an image's
\* artifacts stay the ones its own run wrote.
BatchArtifactsPerImage ==
    /\ \A f, g \in RawImageFiles(disk) :
          f # g => ArtifactPaths(f) \cap ArtifactPaths(g) = {}
    /\ \A f \in DOMAIN runLog :
          runLog[f].pre = "output_path" =>
              \A p \in ArtifactPaths(f) : Exists(disk, p) /\ disk[p].by = f

----------------------------------------------------------------------------
(* process.py: correct_skew on a single-channel image.  The Radon transform *)
(* is skimage's: the model takes the energy of each projection as given,    *)
(* except that the transform of an all-zero image is zero.                  *)

NumPixels == 3
MaxEnergy == 2
NumAngles == 180

PixelValues == {0, 1, 200}
Angles == 0..NumAngles - 1

\* the k-th smallest sample
SortedAt(px, k) ==
    CHOOSE v \in {px[i] : i \in DOMAIN px} :
        /\ Cardinality({i \in DOMAIN px : px[i] < v}) < k
        /\ k <= Cardinality({i \in DOMAIN px : px[i] <= v})

\* 2 * np.median(image_gray)
TwiceMedian(px) ==
    SortedAt(px, (Len(px) + 1) \div 2) + SortedAt(px, (Len(px) + 2) \div 2)

\* lines 36-40
image_binary(px) ==
    IF \E i \in DOMAIN px : px[i] > 1
    THEN [i \in DOMAIN px |-> IF 2 * px[i] > TwiceMedian(px) THEN 255 ELSE 0]
    ELSE [i \in DOMAIN px |-> (px[i] * 255) % 256]

\* the energies r (line 47) a sinogram of the binary image may have: a level
\* b everywhere and h more at one angle p
Profile(b, p, h) == [a \in Angles |-> IF a = p THEN b + h ELSE b]
Energies(bin) ==
    IF \A i \in DOMAIN bin : bin[i] = 0 THEN {Profile(0, 0, 0)}
    ELSE {Profile(b, p, h) : b \in 1..MaxEnergy, p \in Angles, h \in 0..MaxEnergy}

\* np.argmax(r): the first index of the maximum
Argmax(r) ==
    CHOOSE a \in DOMAIN r :
        /\ \A b \in DOMAIN r : r[b] <= r[a]
        /\ \A b \in DOMAIN r : b < a => r[b] < r[a]

\* line 52
skew_angle(r) == -(90 - Argmax(r))

SkewInit ==
    /\ pixels \in [1..NumPixels -> PixelValues]
    /\ energy \in Energies(image_binary(pixels))
    /\ skew = 0
    /\ skewPc = "input"
    /\ TextOff /\ ApiOff /\ BatchOff

\* correct_skew: the angle the image is rotated by (lines 55-58)
CorrectSkew ==
    /\ skewPc = "input"
    /\ skew' = skew_angle(energy)
    /\ skewPc' = "rotated"
    /\ UNCHANGED <<pixels, energy>>
    /\ UNCHANGED <<textVars, apiVars, batchVars>>

SkewNext == CorrectSkew

SpecSkew == SkewInit /\ [][SkewNext]_vars

\* C10: for a degenerate image (all background or all foreground: every
\* projection profile has the same energy) the skew angle computed in
\* correct_skew is 0, so the image is rotated by no correction.
DegenerateImageNotRotated ==
    (skewPc = "rotated" /\ \A a, b \in Angles : energy[a] = energy[b]) => skew = 0

====
